---------------------------- MODULE Spec2Model ----------------------------
(***************************************************************************)
(* Multipart upload core of minio-js: initiateNewMultipartUpload,          *)
(* streamUpload (with its inner calculatePartSize), doPutObject and        *)
(* completeMultipartUpload.                                                *)
(*                                                                         *)
(* Byte counts are JavaScript Numbers.  The sizes the upload deals with    *)
(* (5 MiB parts, a 5*1025*1024*1024 byte ceiling, objects of 9999 parts)   *)
(* exceed 2^31, so a byte count is kept as Width limbs of Radix, least     *)
(* significant first, and the arithmetic of the source is done on limbs.   *)
(***************************************************************************)
EXTENDS Integers, Sequences, FiniteSets, TLC

\* ------------------------------------------------------------------------
\* Number arithmetic (exact integers, as JS Numbers are below 2^53)
\* ------------------------------------------------------------------------

Radix == 2^16

\* Limbs per number: every byte count of the model is below Radix^Width.
Width == 4

RECURSIVE LimbsOf(_, _)
LimbsOf(n, k) ==
    IF k = 0 THEN <<>> ELSE <<n % Radix>> \o LimbsOf(n \div Radix, k - 1)

\* The Number with the value of the (small) integer n.
FromInt(n) == LimbsOf(n, Width)

Zero == FromInt(0)

RECURSIVE AddFrom(_, _, _, _)
AddFrom(a, b, i, carry) ==
    IF i > Width THEN <<>>
    ELSE LET s == a[i] + b[i] + carry
         IN  <<s % Radix>> \o AddFrom(a, b, i + 1, s \div Radix)

\* a + b
Add(a, b) == AddFrom(a, b, 1, 0)

RECURSIVE SubFrom(_, _, _, _)
SubFrom(a, b, i, borrow) ==
    IF i > Width THEN <<>>
    ELSE LET d == a[i] - b[i] - borrow
         IN  IF d < 0 THEN <<d + Radix>> \o SubFrom(a, b, i + 1, 1)
                      ELSE <<d>> \o SubFrom(a, b, i + 1, 0)

\* a - b, for a >= b
Sub(a, b) == SubFrom(a, b, 1, 0)

RECURSIVE LessFrom(_, _, _)
LessFrom(a, b, i) ==
    IF i = 0 THEN FALSE
    ELSE IF a[i] # b[i] THEN a[i] < b[i]
    ELSE LessFrom(a, b, i - 1)

\* a < b
Less(a, b) == LessFrom(a, b, Width)

\* a <= b
Leq(a, b) == ~Less(b, a)

RECURSIVE MulFrom(_, _, _, _)
MulFrom(a, m, i, carry) ==
    IF i > Width THEN <<>>
    ELSE LET s == a[i] * m + carry
         IN  <<s % Radix>> \o MulFrom(a, m, i + 1, s \div Radix)

\* a * m, for a small integer m (m < 2^15)
MulSmall(a, m) == MulFrom(a, m, 1, 0)

RECURSIVE DivFrom(_, _, _, _)
DivFrom(a, d, i, rem) ==
    IF i = 0 THEN <<>>
    ELSE LET cur == rem * Radix + a[i]
         IN  DivFrom(a, d, i - 1, cur % d) \o <<cur \div d>>

\* Math.floor(a / d), for a small integer d (d < 2^15)
FloorDiv(a, d) == DivFrom(a, d, Width, 0)

\* Math.max(a, b)
MathMax(a, b) == IF Less(a, b) THEN b ELSE a

\* ------------------------------------------------------------------------
\* calculatePartSize
\* ------------------------------------------------------------------------

\* 5 * 1024 * 1024
minimumPartSize == FromInt(5 * 1024 * 1024)

\* 5 * 1025 * 1024 * 1024
maximumPartSize == MulSmall(FromInt(5 * 1025 * 1024), 1024)

\* The divisor of the part-size candidate.
PartDivisor == 9999

calculatePartSize_NoCeiling(size) ==
    MathMax(minimumPartSize, FloorDiv(size, PartDivisor))

calculatePartSize_By10000(size) ==
    LET partSize == FloorDiv(size, 10000)
    IN  IF Less(maximumPartSize, partSize)
        THEN maximumPartSize
        ELSE MathMax(minimumPartSize, partSize)

calculatePartSize(size) ==
    LET partSize == FloorDiv(size, PartDivisor)
    IN  IF Less(maximumPartSize, partSize)
        THEN maximumPartSize
        ELSE MathMax(minimumPartSize, partSize)

\* ------------------------------------------------------------------------
\* Values
\* ------------------------------------------------------------------------

\* JavaScript null, as an error argument and as the unset error latch.
Null == "null"

\* JavaScript undefined: an argument a callback was not given.
Undefined == <<"undefined">>

\* The error streamUpload raises when declared and seen sizes disagree.
SizeMismatch == "actual size does not match specified size"

\* The error doPutObject raises when its stream is not of the declared size.
PutSizeMismatch == "actual size !== specified size"

\* hash.digest('hex').toLowerCase() of an md5 over data: a function of the
\* bytes, which the model knows by their content name and their length.
Md5Hex(data) == <<"md5", "hex", data.body, data.len>>

\* hash.digest('base64') of an md5 over data.
Md5Base64(data) == <<"md5", "base64", data.body, data.len>>

\* hash.digest('hex').toLowerCase() of a sha256 over data.
Sha256Hex(data) == <<"sha256", "hex", data.body, data.len>>

\* ------------------------------------------------------------------------
\* Inputs of one streamUpload call
\* ------------------------------------------------------------------------

\* Most full-size parts a declared or an actual stream length holds.
MaxFull == 2

\* Most records of a resume manifest.
MaxResume == 2

\* Lengths beyond a whole number of parts: none, one byte, 1 MiB, one byte
\* short of a part.
Tails ==
    {Zero, FromInt(1), FromInt(1024 * 1024), Sub(minimumPartSize, FromInt(1))}

\* Declared total sizes.
Sizes == {Add(MulSmall(minimumPartSize, k), t) : k \in 0..MaxFull, t \in Tails}

\* Lengths of the input stream for a declared total size: the declared
\* size, one byte less or more, a whole part less or more.
StreamLengths(total) ==
    {total, Add(total, FromInt(1)), Add(total, minimumPartSize)}
        \cup (IF total = Zero THEN {} ELSE {Sub(total, FromInt(1))})
        \cup (IF Less(total, minimumPartSize) THEN {}
              ELSE {Sub(total, minimumPartSize)})

\* Names of the byte contents a part can have.
Bodies == {"a", "b"}

\* Entity tags a server answers a part upload with.
ServerTags == {<<"etag", "s1">>}

\* Responses of the transport to a part upload.
OkResponses ==
    {[statusCode |-> 200, etag |-> t, body |-> ""] : t \in ServerTags}
ErrorResponses ==
    {[statusCode |-> 403, etag |-> Undefined, body |-> "AccessDenied"],
     [statusCode |-> 500, etag |-> Undefined, body |-> "InternalError"]}

\* Entity tags a resume record can hold: the hex md5 of a full-size part of
\* either content, or a tag no part of the stream hashes to.
ResumeTags ==
    {Md5Hex([len |-> minimumPartSize, body |-> b]) : b \in Bodies}
        \cup {<<"etag", "stale">>}

\* Resume manifests: up to MaxResume records, numbered from 1 or from 2.
ResumeManifests ==
    UNION {{[i \in 1..n |-> [part |-> first + i - 1, etag |-> tags[i]]] :
                tags \in [1..n -> ResumeTags], first \in 1..2} :
           n \in 0..MaxResume}

\* ------------------------------------------------------------------------
\* State of one streamUpload call
\* ------------------------------------------------------------------------

VARIABLES
    totalSize,   \* declared total size (argument)
    partSize,    \* calculatePartSize(totalSize)
    partsArray,  \* resume manifest (argument), shifted as parts arrive
    rest,        \* bytes of the input stream r not yet handed on as a buffer
    rstate,      \* input stream r: "flowing", "ended" or "errored"
    part,        \* next part number
    errored,     \* the error latch, Null while unset
    etags,       \* the manifest
    totalSeen,   \* bytes seen
    pc,          \* "idle": between buffers; "put": a part's request is with
                 \* the transport; "lost": the request failed in the
                 \* transport; "flushed": the flush function has run
    inflight,    \* the request the transport holds while pc = "put"
    cbs,         \* the calls of the caller's callback cb, in order
    \* History of the run
    resume0,     \* the resume manifest as supplied
    blocks,      \* the buffers the splitter handed on, in order
    hashed,      \* indexes of the buffers streamUpload hashed
    puts,        \* the calls of doPutObject: part number and buffer index
    requests,    \* the requests doPutObject issued to the transport
    putResults,  \* what doPutObject's callback was called with, per part
    \* Part sizing and part counting of a stream of exactly the declared size
    cSize,       \* declared total size, and length of the stream
    cPartSize,   \* calculatePartSize(cSize), Zero before it is computed
    cRest,       \* bytes of the stream not yet handed on as a buffer
    cPart,       \* next part number
    cSeen,       \* bytes seen
    cpc,         \* "start", "split", "failed" or "done"
    \* One completeMultipartUpload call
    fEtags,      \* the manifest it is given (argument)
    fPayload,    \* the completion document sent, <<>> before it is built
    fpc,         \* "start", "sent" or "done"
    fcbs,        \* the calls of its callback cb, in order
    \* One doPutObject call of its own
    pSize,       \* declared size (argument)
    pPart,       \* part number (argument), 0 when the object is not a part
    pType,       \* content type (argument)
    pData,       \* what the input stream r holds: length and content
    prstate,     \* input stream r: "flowing", "ended" or "errored"
    ppc,         \* "reading", "put", "lost" or "done"
    pSigned,     \* the requests given to signV4
    pSent,       \* the requests given to the transport
    pcbs,        \* the calls of its callback cb, in order
    \* One initiateNewMultipartUpload call
    iType,       \* content type (argument)
    iSigned,     \* the requests given to signV4
    iSent,       \* the requests given to the transport
    iResponse,   \* the response of the transport, NoResponse before it
    ipc,         \* "sent", "body", "thrown", "lost" or "done"
    icbs         \* the calls of its callback cb, in order

vars ==
    <<totalSize, partSize, partsArray, rest, rstate, part, errored, etags,
      totalSeen, pc, inflight, cbs, resume0, blocks, hashed, puts, requests,
      putResults, cSize, cPartSize, cRest, cPart, cSeen, cpc, fEtags,
      fPayload, fpc, fcbs, pSize, pPart, pType, pData, prstate, ppc, pSigned,
      pSent, pcbs, iType, iSigned, iSent, iResponse, ipc, icbs>>

uploadVars ==
    <<totalSize, partSize, partsArray, rest, rstate, part, errored, etags,
      totalSeen, pc, inflight, cbs, resume0, blocks, hashed, puts, requests,
      putResults>>

calcVars == <<cSize, cPartSize, cRest, cPart, cSeen, cpc>>

completeVars == <<fEtags, fPayload, fpc, fcbs>>

putVars == <<pSize, pPart, pType, pData, prstate, ppc, pSigned, pSent, pcbs>>

initiateVars == <<iType, iSigned, iSent, iResponse, ipc, icbs>>

\* The response slot of a call the transport has not answered.
NoResponse == [statusCode |-> 0, root |-> FALSE, children |-> <<>>, body |-> ""]

NoRequest == [part |-> 0, size |-> Zero, md5 |-> Undefined, sha256 |-> Undefined]

\* No part sizing run beside the upload.
NoCalc ==
    /\ cSize = Zero
    /\ cPartSize = Zero
    /\ cRest = Zero
    /\ cPart = 1
    /\ cSeen = Zero
    /\ cpc = "done"

\* No completeMultipartUpload call beside the upload.
NoComplete ==
    /\ fEtags = <<>>
    /\ fPayload = <<>>
    /\ fpc = "done"
    /\ fcbs = <<>>

\* ------------------------------------------------------------------------
\* Inputs of a lone doPutObject call, whose input stream r need not hold
\* the declared number of bytes; the states without such a call and
\* without an initiateNewMultipartUpload call
\* ------------------------------------------------------------------------

\* Largest part number of a lone doPutObject call (0: not a part).
MaxPutPart == 2

\* Declared sizes, and lengths of the stream, of a lone call.
PutSizes == {Zero, FromInt(1), minimumPartSize}

\* Content types a caller passes.
ContentTypes == {Null, "", "text/plain"}

StreamFailure == "stream error"

\* Lines 153-156: the query string, present for a truthy part number only.
QueryOf(partNo) == IF partNo # 0 THEN <<"partNumber", "uploadId">> ELSE <<>>

\* Lines 157-159: the content type sent.
ContentTypeOf(contentType) ==
    IF contentType = Null \/ contentType = ""
    THEN "application/octet-stream"
    ELSE contentType

\* No doPutObject call of its own.
NoPut ==
    /\ pSize = Zero
    /\ pPart = 0
    /\ pType = Null
    /\ pData = [len |-> Zero, body |-> "a"]
    /\ prstate = "ended"
    /\ ppc = "done"
    /\ pSigned = <<>>
    /\ pSent = <<>>
    /\ pcbs = <<>>

\* No initiateNewMultipartUpload call.
NoInitiate ==
    /\ iType = Null
    /\ iSigned = <<>>
    /\ iSent = <<>>
    /\ iResponse = NoResponse
    /\ ipc = "done"
    /\ icbs = <<>>

Init ==
    /\ NoCalc
    /\ NoComplete
    /\ NoPut
    /\ NoInitiate
    /\ totalSize \in Sizes
    /\ partSize = calculatePartSize(totalSize)
    /\ partsArray \in ResumeManifests
    /\ rest \in StreamLengths(totalSize)
    /\ rstate = "flowing"
    /\ part = 1
    /\ errored = Null
    /\ etags = <<>>
    /\ totalSeen = Zero
    /\ pc = "idle"
    /\ inflight = NoRequest
    /\ cbs = <<>>
    /\ resume0 = partsArray
    /\ blocks = <<>>
    /\ hashed = {}
    /\ puts = <<>>
    /\ requests = <<>>
    /\ putResults = <<>>

\* BlockStream2({size, zeroPadding: false}): the length of the next buffer
\* it hands on when r still holds n bytes: a full block while there is one,
\* the remainder at the end of r.
BlockLength_ZeroPadded(n, size) == size

BlockLength(n, size) == IF Less(n, size) THEN n ELSE size

\* Lines 82-88: a buffer shorter than the part size must be exactly what is
\* left of the declared size.
ShortBlockMismatch(len, size, total, seen) ==
    /\ Less(len, size)
    /\ \/ Less(total, seen)             \* expectedSize is negative
       \/ Sub(total, seen) # len

\* Line 98: the resume record's tag against the buffer's md5.
ResumeMatch_Base64(curJob, md5) ==
    curJob.etag = <<md5[1], "base64", md5[3], md5[4]>>

ResumeMatch_AnyRecord(curJob, md5) ==
    \E i \in 1..Len(resume0) : resume0[i].etag = md5

ResumeMatch_Never(curJob, md5) == FALSE

ResumeMatch(curJob, md5) == curJob.etag = md5

\* Line 99-102: the manifest entry of a part skipped on resume.
SkipEntry_StoredPart(curPart, curJob, md5) == [part |-> curJob.part, etag |-> md5]

SkipEntry(curPart, curJob, md5) == [part |-> curPart, etag |-> md5]

\* doPutObject, lines 161-200, up to the request: the stream's data against
\* the declared size, the two digests, the request handed to the transport.
doPutObject_NoSizeCheck(size, partNo, data) ==
    [kind |-> "request", err |-> Null,
     req |-> [part |-> partNo, size |-> size,
              md5 |-> Md5Base64(data), sha256 |-> Sha256Hex(data)]]

doPutObject(size, partNo, data) ==
    IF data.len # size
    THEN [kind |-> "cb", err |-> PutSizeMismatch, req |-> NoRequest]
    ELSE [kind |-> "request", err |-> Null,
          req |-> [part |-> partNo, size |-> size,
                   md5 |-> Md5Base64(data), sha256 |-> Sha256Hex(data)]]

\* Lines 114-125: the callback streamUpload gives doPutObject.
PutCallback_NoLatch(curPart, e, etag) ==
    [errored |-> errored,
     etags |-> IF errored # Null \/ e # Null THEN etags
               ELSE Append(etags, [part |-> curPart, etag |-> etag])]

PutCallback(curPart, e, etag) ==
    IF errored # Null THEN [errored |-> errored, etags |-> etags]
    ELSE IF e # Null THEN [errored |-> e, etags |-> etags]
    ELSE [errored |-> Null,
          etags |-> Append(etags, [part |-> curPart, etag |-> etag])]

\* parseError(response, cb) of xml-parsers.js: calls cb with the error the
\* response's body describes.
parseError(response) == response.body

\* Lines 128-137, the flush function: what cb is called with.
FlushResult_IgnoreLatch ==
    IF totalSeen # totalSize
    THEN [err |-> SizeMismatch, arg2 |-> "null", etags |-> <<>>]
    ELSE [err |-> Null, arg2 |-> "value", etags |-> etags]

FlushResult_IgnoreSize ==
    IF errored # Null
    THEN [err |-> errored, arg2 |-> "undefined", etags |-> <<>>]
    ELSE [err |-> Null, arg2 |-> "value", etags |-> etags]

FlushResult_LeftoverFails ==
    IF errored # Null
    THEN [err |-> errored, arg2 |-> "undefined", etags |-> <<>>]
    ELSE IF totalSeen # totalSize \/ partsArray # <<>>
    THEN [err |-> SizeMismatch, arg2 |-> "null", etags |-> <<>>]
    ELSE [err |-> Null, arg2 |-> "value", etags |-> etags]

FlushResult ==
    IF errored # Null
    THEN [err |-> errored, arg2 |-> "undefined", etags |-> <<>>]
    ELSE IF totalSeen # totalSize
    THEN [err |-> SizeMismatch, arg2 |-> "null", etags |-> <<>>]
    ELSE [err |-> Null, arg2 |-> "value", etags |-> etags]

\* Lines 130-136: the calls of cb the flush function makes; each branch
\* returns with its call.
FlushCalls_FallThrough ==
    (IF errored # Null
     THEN <<[err |-> errored, arg2 |-> "undefined", etags |-> <<>>]>>
     ELSE <<>>)
        \o (IF totalSeen # totalSize
            THEN <<[err |-> SizeMismatch, arg2 |-> "null", etags |-> <<>>]>>
            ELSE <<>>)
        \o <<[err |-> Null, arg2 |-> "value", etags |-> etags]>>

FlushCalls == <<FlushResult>>

\* Lines 78-80: if (errored), the latch as the transform function reads it.
Latched_Never == FALSE

Latched == errored # Null

\* Lines 111-126: where the transform function stands once doPutObject has
\* issued the part's request: done() is left to doPutObject's callback, so
\* the next buffer waits for the response.
AwaitingDone_DoneAtOnce == "idle"

AwaitingDone == "put"

\* ------------------------------------------------------------------------
\* Steps of streamUpload
\* ------------------------------------------------------------------------

\* Lines 77-127: the transform function gets the splitter's next buffer.
\* done() has been called when pc is "idle" again.
Transform ==
    /\ UNCHANGED <<calcVars, completeVars, putVars, initiateVars>>
    /\ pc = "idle"
    /\ rstate = "flowing"
    /\ rest # Zero
    /\ \E body \in Bodies :
        LET data == [len |-> BlockLength(rest, partSize), body |-> body]
            idx == Len(blocks) + 1
            curPart == part
            resuming == Len(partsArray) > 0
            curJob == Head(partsArray)
            md5 == Md5Hex(data)
            put == doPutObject(data.len, curPart, data)
            after == PutCallback(curPart, put.err, Undefined)
        IN  /\ rest' = Sub(rest, data.len)
            /\ blocks' = Append(blocks, data)
            /\ UNCHANGED <<totalSize, partSize, rstate, cbs, resume0>>
            /\ IF Latched
               THEN UNCHANGED <<partsArray, part, errored, etags, totalSeen,
                                pc, inflight, hashed, puts, requests,
                                putResults>>
               ELSE IF ShortBlockMismatch(data.len, partSize, totalSize, totalSeen)
               THEN /\ errored' = SizeMismatch
                    /\ UNCHANGED <<partsArray, part, etags, totalSeen, pc,
                                   inflight, hashed, puts, requests,
                                   putResults>>
               ELSE /\ totalSeen' = Add(totalSeen, data.len)
                    /\ part' = part + 1
                    /\ partsArray' =
                           IF resuming THEN Tail(partsArray) ELSE partsArray
                    /\ hashed' = IF resuming THEN hashed \cup {idx} ELSE hashed
                    /\ IF resuming /\ ResumeMatch(curJob, md5)
                       THEN /\ etags' =
                                   Append(etags, SkipEntry(curPart, curJob, md5))
                            /\ UNCHANGED <<errored, pc, inflight, puts,
                                           requests, putResults>>
                       ELSE /\ puts' =
                                   Append(puts, [part |-> curPart, block |-> idx])
                            /\ IF put.kind = "request"
                               THEN /\ pc' = AwaitingDone
                                    /\ inflight' = put.req
                                    /\ requests' = Append(requests, put.req)
                                    /\ UNCHANGED <<errored, etags, putResults>>
                               ELSE /\ errored' = after.errored
                                    /\ etags' = after.etags
                                    /\ putResults' =
                                           Append(putResults,
                                                  [part |-> curPart,
                                                   err |-> put.err,
                                                   etag |-> Undefined])
                                    /\ UNCHANGED <<pc, inflight, requests>>

\* Lines 193-199 and 114-125: the transport answers the part's request with
\* status 200; doPutObject passes the etag header on, streamUpload records
\* it and calls done().
ResponseOk ==
    /\ UNCHANGED <<calcVars, completeVars, putVars, initiateVars>>
    /\ pc = "put"
    /\ \E response \in OkResponses :
        LET after == PutCallback(inflight.part, Null, response.etag)
        IN  /\ errored' = after.errored
            /\ etags' = after.etags
            /\ putResults' = Append(putResults,
                                    [part |-> inflight.part, err |-> Null,
                                     etag |-> response.etag])
    /\ pc' = "idle"
    /\ inflight' = NoRequest
    /\ UNCHANGED <<totalSize, partSize, partsArray, rest, rstate, part,
                   totalSeen, cbs, resume0, blocks, hashed, puts, requests>>

\* Lines 194-196 and 114-125: the transport answers with another status;
\* parseError gives doPutObject's callback the error.
ResponseError ==
    /\ UNCHANGED <<calcVars, completeVars, putVars, initiateVars>>
    /\ pc = "put"
    /\ \E response \in ErrorResponses :
        LET e == parseError(response)
            after == PutCallback(inflight.part, e, Undefined)
        IN  /\ errored' = after.errored
            /\ etags' = after.etags
            /\ putResults' = Append(putResults,
                                    [part |-> inflight.part, err |-> e,
                                     etag |-> Undefined])
    /\ pc' = "idle"
    /\ inflight' = NoRequest
    /\ UNCHANGED <<totalSize, partSize, partsArray, rest, rstate, part,
                   totalSeen, cbs, resume0, blocks, hashed, puts, requests>>

\* Lines 193-200: the request fails in the transport (the connection is
\* reset, say): the request object emits 'error'.  doPutObject listens for
\* 'error' on its input stream r only (line 204), so no callback runs and
\* done() is never called.
TransportError ==
    /\ UNCHANGED <<calcVars, completeVars, putVars, initiateVars>>
    /\ pc = "put"
    /\ pc' = "lost"
    /\ UNCHANGED <<totalSize, partSize, partsArray, rest, rstate, part,
                   errored, etags, totalSeen, inflight, cbs, resume0, blocks,
                   hashed, puts, requests, putResults>>

\* Lines 73-77: the input stream r emits 'error' before it ends.
\* streamUpload listens for 'finish' only, and pipe() does not pass a
\* source's error on: no further buffer and no end reach the transform.
StreamError ==
    /\ UNCHANGED <<calcVars, completeVars, putVars, initiateVars>>
    /\ rstate = "flowing"
    /\ rstate' = "errored"
    /\ UNCHANGED <<totalSize, partSize, partsArray, rest, part, errored,
                   etags, totalSeen, pc, inflight, cbs, resume0, blocks,
                   hashed, puts, requests, putResults>>

\* Lines 128-137: r has ended and every buffer is done: the flush function.
Flush ==
    /\ UNCHANGED <<calcVars, completeVars, putVars, initiateVars>>
    /\ pc = "idle"
    /\ rstate = "flowing"
    /\ rest = Zero
    /\ rstate' = "ended"
    /\ pc' = "flushed"
    /\ cbs' = cbs \o FlushCalls
    /\ UNCHANGED <<totalSize, partSize, partsArray, rest, part, errored,
                   etags, totalSeen, inflight, resume0, blocks, hashed, puts,
                   requests, putResults>>

Next ==
    \/ Transform
    \/ ResponseOk
    \/ ResponseError
    \/ TransportError
    \/ StreamError
    \/ Flush

Spec == Init /\ [][Next]_vars

\* ------------------------------------------------------------------------
\* Part sizing and part counting, for sizes up to 10000 parts of the ceiling
\* ------------------------------------------------------------------------

\* How far around each size of interest the declared sizes range.
CalcSpread == 2

\* Sizes of interest: nothing, one minimum part, 9999 parts of 5 MiB and of
\* 10 MiB, 9999 parts of the ceiling, the first size whose candidate is
\* above the ceiling, 10000 parts of the ceiling.
CalcBases ==
    {Zero,
     minimumPartSize,
     MulSmall(minimumPartSize, 9999),
     MulSmall(MulSmall(minimumPartSize, 2), 9999),
     MulSmall(maximumPartSize, 9999),
     MulSmall(Add(maximumPartSize, FromInt(1)), 9999),
     MulSmall(maximumPartSize, 10000)}

CalcSizes ==
    {Add(b, FromInt(d)) : b \in CalcBases, d \in 0..CalcSpread}
        \cup {Sub(b, FromInt(d)) : b \in CalcBases \ {Zero}, d \in 1..CalcSpread}

\* No upload run beside the part sizing.
NoUpload ==
    /\ totalSize = Zero
    /\ partSize = minimumPartSize
    /\ partsArray = <<>>
    /\ rest = Zero
    /\ rstate = "ended"
    /\ part = 1
    /\ errored = Null
    /\ etags = <<>>
    /\ totalSeen = Zero
    /\ pc = "flushed"
    /\ inflight = NoRequest
    /\ cbs = <<>>
    /\ resume0 = <<>>
    /\ blocks = <<>>
    /\ hashed = {}
    /\ puts = <<>>
    /\ requests = <<>>
    /\ putResults = <<>>

InitCalc ==
    /\ NoUpload
    /\ NoComplete
    /\ NoPut
    /\ NoInitiate
    /\ cSize \in CalcSizes
    /\ cPartSize = Zero
    /\ cRest = cSize
    /\ cPart = 1
    /\ cSeen = Zero
    /\ cpc = "start"

\* Line 70: the part size of the upload.
CalcPartSize ==
    /\ cpc = "start"
    /\ cPartSize' = calculatePartSize(cSize)
    /\ cpc' = "split"
    /\ UNCHANGED <<cSize, cRest, cPart, cSeen>>
    /\ UNCHANGED <<uploadVars, completeVars, putVars, initiateVars>>

\* Lines 74-92: the splitter's next buffer reaches the transform function,
\* which checks a short buffer against the declared size, adds the buffer
\* to the bytes seen and gives it the next part number.
CalcPart ==
    /\ cpc = "split"
    /\ cRest # Zero
    /\ LET len == BlockLength(cRest, cPartSize)
       IN  /\ cRest' = Sub(cRest, len)
           /\ IF ShortBlockMismatch(len, cPartSize, cSize, cSeen)
              THEN /\ cpc' = "failed"
                   /\ UNCHANGED <<cPart, cSeen>>
              ELSE /\ cSeen' = Add(cSeen, len)
                   /\ cPart' = cPart + 1
                   /\ cpc' = cpc
    /\ UNCHANGED <<cSize, cPartSize>>
    /\ UNCHANGED <<uploadVars, completeVars, putVars, initiateVars>>

\* Lines 128-137: the stream has ended; the bytes seen against the declared
\* size.
CalcFlush ==
    /\ cpc = "split"
    /\ cRest = Zero
    /\ cpc' = IF cSeen # cSize THEN "failed" ELSE "done"
    /\ UNCHANGED <<cSize, cPartSize, cRest, cPart, cSeen>>
    /\ UNCHANGED <<uploadVars, completeVars, putVars, initiateVars>>

NextCalc ==
    \/ CalcPartSize
    \/ CalcPart
    \/ CalcFlush

SpecCalc == InitCalc /\ [][NextCalc]_vars

\* ------------------------------------------------------------------------
\* completeMultipartUpload
\* ------------------------------------------------------------------------

\* Most entries of a manifest given to completeMultipartUpload, and the
\* highest part number in one.
MaxManifest == 3

\* Manifests a caller can give: entries in any order.
GivenManifests ==
    UNION {[1..n -> [part : 1..MaxManifest, etag : {<<"etag", "s1">>}]] :
           n \in 0..MaxManifest}

\* Lines 219-227: one Part element per entry of etags, by forEach and push.
CompletionParts(tags) ==
    [i \in 1..Len(tags) |-> [PartNumber |-> tags[i].part, ETag |-> tags[i].etag]]

\* Lines 229-232: Xml(payloadObject) writes the elements of the array in the
\* array's order under the root element.
Xml(parts) == <<"CompleteMultipartUpload">> \o parts

\* The Part elements of a completion document.
PartsOf(payload) == Tail(payload)

\* Responses of the transport to the completion request.
CompleteErrorResponses ==
    {[statusCode |-> 400, body |-> "InvalidPartOrder"],
     [statusCode |-> 500, body |-> "InternalError"]}

InitComplete ==
    /\ NoUpload
    /\ NoCalc
    /\ NoPut
    /\ NoInitiate
    /\ fEtags \in GivenManifests
    /\ fPayload = <<>>
    /\ fpc = "start"
    /\ fcbs = <<>>

\* Lines 210-252: the document is built, signed and sent.
CompleteSend ==
    /\ fpc = "start"
    /\ fPayload' = Xml(CompletionParts(fEtags))
    /\ fpc' = "sent"
    /\ UNCHANGED <<fEtags, fcbs>>
    /\ UNCHANGED <<uploadVars, calcVars, putVars, initiateVars>>

\* Lines 246-251: status 200, cb().
CompleteOk ==
    /\ fpc = "sent"
    /\ fcbs' = Append(fcbs, [err |-> "undefined"])
    /\ fpc' = "done"
    /\ UNCHANGED <<fEtags, fPayload>>
    /\ UNCHANGED <<uploadVars, calcVars, putVars, initiateVars>>

\* Lines 247-249: another status, parseError(response, cb).
CompleteError ==
    /\ fpc = "sent"
    /\ \E response \in CompleteErrorResponses :
           fcbs' = Append(fcbs, [err |-> parseError(response)])
    /\ fpc' = "done"
    /\ UNCHANGED <<fEtags, fPayload>>
    /\ UNCHANGED <<uploadVars, calcVars, putVars, initiateVars>>

NextComplete ==
    \/ CompleteSend
    \/ CompleteOk
    \/ CompleteError

SpecComplete == InitComplete /\ [][NextComplete]_vars

\* ------------------------------------------------------------------------
\* doPutObject on its own (SpecPut)
\* ------------------------------------------------------------------------

InitPut ==
    /\ NoUpload
    /\ NoCalc
    /\ NoComplete
    /\ NoInitiate
    /\ pSize \in PutSizes
    /\ pPart \in 0..MaxPutPart
    /\ pType \in ContentTypes
    /\ pData \in [len : PutSizes, body : Bodies]
    /\ prstate = "flowing"
    /\ ppc = "reading"
    /\ pSigned = <<>>
    /\ pSent = <<>>
    /\ pcbs = <<>>

\* Lines 161-200: the input stream r ends and Concat hands over all it
\* held.  A length other than the declared size is reported at once;
\* otherwise the request is built, signed and given to the transport.
PutConcat ==
    /\ UNCHANGED <<uploadVars, calcVars, completeVars, initiateVars>>
    /\ prstate = "flowing"
    /\ ppc = "reading"
    /\ prstate' = "ended"
    /\ LET step == doPutObject(pSize, pPart, pData)
           requestParams == [method |-> "PUT", query |-> QueryOf(pPart),
                             contentLength |-> step.req.size,
                             contentType |-> ContentTypeOf(pType),
                             contentMD5 |-> step.req.md5]
       IN  IF step.kind = "cb"
           THEN /\ pcbs' = Append(pcbs, [err |-> step.err, etag |-> Undefined])
                /\ ppc' = "done"
                /\ UNCHANGED <<pSigned, pSent>>
           ELSE /\ pSigned' = Append(pSigned, [request |-> requestParams,
                                               sha256 |-> step.req.sha256])
                /\ pSent' = Append(pSent, requestParams)
                /\ ppc' = "put"
                /\ UNCHANGED pcbs
    /\ UNCHANGED <<pSize, pPart, pType, pData>>

\* Lines 204-206: the input stream r emits 'error' before it ends; the
\* error goes to cb and Concat never gets the data.
PutStreamError ==
    /\ UNCHANGED <<uploadVars, calcVars, completeVars, initiateVars>>
    /\ prstate = "flowing"
    /\ ppc = "reading"
    /\ prstate' = "errored"
    /\ ppc' = "done"
    /\ pcbs' = Append(pcbs, [err |-> StreamFailure, etag |-> Undefined])
    /\ UNCHANGED <<pSize, pPart, pType, pData, pSigned, pSent>>

\* Lines 193-199: status 200, the etag header goes to cb.
PutResponseOk ==
    /\ UNCHANGED <<uploadVars, calcVars, completeVars, initiateVars>>
    /\ ppc = "put"
    /\ \E response \in OkResponses :
           pcbs' = Append(pcbs, [err |-> Null, etag |-> response.etag])
    /\ ppc' = "done"
    /\ UNCHANGED <<pSize, pPart, pType, pData, prstate, pSigned, pSent>>

\* Lines 194-196: another status, parseError gives cb the error.
PutResponseError ==
    /\ UNCHANGED <<uploadVars, calcVars, completeVars, initiateVars>>
    /\ ppc = "put"
    /\ \E response \in ErrorResponses :
           pcbs' = Append(pcbs, [err |-> parseError(response),
                                 etag |-> Undefined])
    /\ ppc' = "done"
    /\ UNCHANGED <<pSize, pPart, pType, pData, prstate, pSigned, pSent>>

\* Lines 193-200: the request fails in the transport; nothing listens for
\* the request's 'error', so cb is not called.
PutTransportError ==
    /\ UNCHANGED <<uploadVars, calcVars, completeVars, initiateVars>>
    /\ ppc = "put"
    /\ ppc' = "lost"
    /\ UNCHANGED <<pSize, pPart, pType, pData, prstate, pSigned, pSent, pcbs>>

NextPut ==
    \/ PutConcat
    \/ PutStreamError
    \/ PutResponseOk
    \/ PutResponseError
    \/ PutTransportError

SpecPut == InitPut /\ [][NextPut]_vars

\* ------------------------------------------------------------------------
\* initiateNewMultipartUpload (SpecInitiate)
\* ------------------------------------------------------------------------

\* Most child elements of a response document's root.
MaxElements == 2

UnableToGetUploadId == "unable to get upload id"

\* Child elements of the root of a response document.
Elements == [name : {"Bucket", "Key", "UploadId"}, content : {"", "id1", "id2"}]

RECURSIVE ChildLists(_)
ChildLists(n) ==
    IF n = 0 THEN {<<>>}
    ELSE ChildLists(n - 1)
             \cup {Append(c, e) : c \in {d \in ChildLists(n - 1) : Len(d) = n - 1},
                                  e \in Elements}

\* Responses with status 200: a body xml-parser finds a root element in,
\* with its children, or a body it finds none in (an empty body, say), for
\* which ParseXml returns an object whose root is undefined.
InitiateOkResponses ==
    {[statusCode |-> 200, root |-> TRUE, children |-> c, body |-> ""] :
         c \in ChildLists(MaxElements)}
        \cup {[statusCode |-> 200, root |-> FALSE, children |-> <<>>, body |-> ""]}

InitiateErrorResponses ==
    {[statusCode |-> 403, root |-> TRUE, children |-> <<>>, body |-> "AccessDenied"],
     [statusCode |-> 500, root |-> TRUE, children |-> <<>>, body |-> "InternalError"]}

\* Lines 48-54: uploadId after the forEach over the root's children, from
\* the value it has before them.
RECURSIVE UploadIdFrom(_, _)
UploadIdFrom(uploadId, children) ==
    IF children = <<>> THEN uploadId
    ELSE UploadIdFrom(IF Head(children).name = "UploadId"
                      THEN Head(children).content
                      ELSE uploadId,
                      Tail(children))

\* Line 56: if (uploadId).
Truthy(uploadId) == uploadId # Null /\ uploadId # ""

\* Lines 56-59: the call of cb after the forEach.
InitiateResult(children) ==
    LET uploadId == UploadIdFrom(Null, children)
    IN  IF Truthy(uploadId)
        THEN [err |-> Null, given |-> TRUE, uploadId |-> uploadId]
        ELSE [err |-> UnableToGetUploadId, given |-> FALSE, uploadId |-> ""]

InitInitiate ==
    /\ NoUpload
    /\ NoCalc
    /\ NoComplete
    /\ NoPut
    /\ iType \in ContentTypes
    /\ iSigned = <<>>
    /\ iSent = <<>>
    /\ iResponse = NoResponse
    /\ ipc = "start"
    /\ icbs = <<>>

\* Lines 30-43 and 62: the request is built, signed with an empty payload
\* hash and given to the transport.
InitiateSend ==
    /\ UNCHANGED <<uploadVars, calcVars, completeVars, putVars>>
    /\ ipc = "start"
    /\ LET requestParams == [method |-> "POST", query |-> <<"uploads">>,
                             contentType |-> iType]
       IN  /\ iSigned' = Append(iSigned, [request |-> requestParams,
                                          sha256 |-> ""])
           /\ iSent' = Append(iSent, requestParams)
    /\ ipc' = "sent"
    /\ UNCHANGED <<iType, iResponse, icbs>>

\* Lines 43-47: the transport's response; another status than 200 goes to
\* parseError, a 200 response is piped into Concat.
InitiateResponse ==
    /\ UNCHANGED <<uploadVars, calcVars, completeVars, putVars>>
    /\ ipc = "sent"
    /\ \E response \in InitiateOkResponses \cup InitiateErrorResponses :
        /\ iResponse' = response
        /\ IF response.statusCode # 200
           THEN /\ icbs' = Append(icbs, [err |-> parseError(response),
                                         given |-> FALSE, uploadId |-> ""])
                /\ ipc' = "done"
           ELSE /\ ipc' = "body"
                /\ UNCHANGED icbs
    /\ UNCHANGED <<iType, iSigned, iSent>>

\* Lines 47-60: Concat hands over the body.  Without a root element
\* parsedXml.root is undefined and parsedXml.root.children throws inside
\* the callback; otherwise the children are searched and cb is called.
InitiateBody ==
    /\ UNCHANGED <<uploadVars, calcVars, completeVars, putVars>>
    /\ ipc = "body"
    /\ IF ~iResponse.root
       THEN /\ ipc' = "thrown"
            /\ UNCHANGED icbs
       ELSE /\ icbs' = Append(icbs, InitiateResult(iResponse.children))
            /\ ipc' = "done"
    /\ UNCHANGED <<iType, iSigned, iSent, iResponse>>

\* Line 43: the request fails in the transport; nothing listens for the
\* request's 'error', so cb is not called.
InitiateTransportError ==
    /\ UNCHANGED <<uploadVars, calcVars, completeVars, putVars>>
    /\ ipc = "sent"
    /\ ipc' = "lost"
    /\ UNCHANGED <<iType, iSigned, iSent, iResponse, icbs>>

NextInitiate ==
    \/ InitiateSend
    \/ InitiateResponse
    \/ InitiateBody
    \/ InitiateTransportError

SpecInitiate == InitInitiate /\ [][NextInitiate]_vars

\* ------------------------------------------------------------------------
\* Claims on part sizing and part counting (SpecCalc)
\* ------------------------------------------------------------------------

\* The parts numbered so far in the part-counting run.
PartsCounted == cPart - 1

\* The largest size that fits 10000 parts of the ceiling.
LargestCounted == MulSmall(maximumPartSize, 10000)

\* C5 (as claimed): a stream of exactly the declared size S is split into
\* between 1 and 9,999 parts, so no part number above 9,999 is assigned.
C5_PartCountWithin9999 ==
    /\ PartsCounted <= 9999
    /\ cpc = "done" => PartsCounted >= 1

\* C5 (amended): a stream of exactly the declared size S, S up to 10000
\* parts of the ceiling, is never rejected and is split into at most 10,000
\* parts; it is split into no part at all exactly when S = 0.
C5_PartCountWithin10000 ==
    /\ cpc # "failed"
    /\ Leq(cSize, LargestCounted) => PartsCounted <= 10000
    /\ cpc = "done" => (PartsCounted = 0 <=> cSize = Zero)

\* C5 witness: an upload of one byte more than 9999 parts of 5 MiB has ended
\* with 10,000 parts.
C5_Witness ==
    /\ cpc = "done"
    /\ cSize = Add(MulSmall(minimumPartSize, 9999), FromInt(1))
    /\ cPartSize = minimumPartSize
    /\ PartsCounted = 10000

\* C6: calculatePartSize(total) is max(5 MiB, min(floor(total/9999),
\* ceiling)): 5 MiB for every total up to 5 MiB, 10 MiB for 9999 * 10 MiB,
\* the ceiling when floor(total/9999) is above the ceiling, and always
\* within [5 MiB, ceiling].  floor(total/9999) is stated by multiplication:
\* q = floor(total/9999) iff 9999*q <= total < 9999*(q+1).
C6_PartSizeFormula ==
    cpc # "start" =>
        LET fiveMiB == FromInt(5 * 1024 * 1024)
            tenMiB == FromInt(10 * 1024 * 1024)
            ceiling == MulSmall(FromInt(5 * 1025 * 1024), 1024)
            aboveCeiling == Leq(MulSmall(Add(ceiling, FromInt(1)), 9999), cSize)
            belowFloor == Less(cSize, MulSmall(fiveMiB, 9999))
        IN  /\ Leq(fiveMiB, cPartSize) /\ Leq(cPartSize, ceiling)
            /\ Leq(cSize, fiveMiB) => cPartSize = fiveMiB
            /\ cSize = MulSmall(tenMiB, 9999) => cPartSize = tenMiB
            /\ aboveCeiling => cPartSize = ceiling
            /\ belowFloor => cPartSize = fiveMiB
            /\ ~aboveCeiling /\ ~belowFloor =>
                   /\ Leq(MulSmall(cPartSize, 9999), cSize)
                   /\ Less(cSize, MulSmall(Add(cPartSize, FromInt(1)), 9999))

\* C6 witness: the part size of a total whose candidate is above the ceiling
\* has been computed, and is the ceiling.
C6_Witness ==
    /\ cpc = "split"
    /\ cSize = Add(MulSmall(Add(maximumPartSize, FromInt(1)), 9999), FromInt(1))
    /\ cPartSize = maximumPartSize

\* ------------------------------------------------------------------------
\* Claims on streamUpload (Spec)
\* ------------------------------------------------------------------------

RECURSIVE SumLen(_)
SumLen(bs) == IF bs = <<>> THEN Zero ELSE Add(Head(bs).len, SumLen(Tail(bs)))

\* The length of the input stream: what the splitter handed on and what it
\* has not handed on yet.
StreamLength == Add(SumLen(blocks), rest)

\* The calls of cb that report success.
Successes == {i \in 1..Len(cbs) : cbs[i].err = Null}

\* The parts whose upload doPutObject reported as failed.
FailedPuts == {j \in 1..Len(putResults) : putResults[j].err # Null}

\* C1: whenever streamUpload reports success, the manifest holds exactly one
\* entry per part number 1..N, N the number of buffers the stream was split
\* into, in ascending order, however skipped and uploaded parts interleave.
C1_ManifestDense ==
    \A i \in Successes :
        /\ cbs[i].arg2 = "value"
        /\ Len(cbs[i].etags) = Len(blocks)
        /\ \A n \in 1..Len(blocks) : cbs[i].etags[n].part = n

\* C1 witness: success over three buffers of which the first was skipped on
\* resume and the second, compared with a record and found changed, was
\* uploaded, as was the third.
C1_Witness ==
    /\ Successes # {}
    /\ Len(blocks) = 3
    /\ Len(resume0) = 2 /\ resume0[1].part = 2
    /\ hashed = {1, 2}
    /\ Len(puts) = 2 /\ puts[1].part = 2 /\ puts[2].part = 3

\* The first k records of the supplied resume manifest hold the hex md5 of
\* the first k buffers of the stream.
FirstMatch(k) ==
    /\ k <= Len(resume0)
    /\ k <= Len(blocks)
    /\ \A n \in 1..k : resume0[n].etag = Md5Hex(blocks[n])

\* C2: when the first K recorded hashes of the resume manifest equal the
\* hashes of the first K parts of the stream, no upload is issued for parts
\* 1..K, and the manifest of a success carries for each of them the stored
\* tag of its resume record.
C2_ResumeSkips ==
    \A k \in 1..Len(resume0) :
        FirstMatch(k) =>
            /\ \A j \in 1..Len(puts) : puts[j].block > k /\ puts[j].part > k
            /\ \A j \in 1..Len(requests) : requests[j].part > k
            /\ \A i \in Successes : \A n \in 1..k :
                   cbs[i].etags[n] = [part |-> n, etag |-> resume0[n].etag]

\* C2 witness: success over three buffers, the first two matched by the two
\* resume records (numbered from 2), the third uploaded.
C2_Witness ==
    /\ Successes # {}
    /\ Len(blocks) = 3
    /\ FirstMatch(2)
    /\ resume0[1].part = 2
    /\ Len(requests) = 1

\* C3 (as claimed): when the length of the stream differs from the declared
\* total size, what streamUpload reports is the size-mismatch failure, never
\* success; and when the mismatch is found on a short buffer, that buffer
\* and all later ones are neither hashed nor uploaded.
C3_MismatchReported ==
    /\ StreamLength # totalSize =>
           \A i \in 1..Len(cbs) :
               cbs[i].err = SizeMismatch /\ cbs[i].arg2 # "value"
    /\ errored = SizeMismatch =>
           \A idx \in part..Len(blocks) :
               /\ idx \notin hashed
               /\ \A j \in 1..Len(puts) : puts[j].block # idx

\* C3 (amended): when the length of the stream differs from the declared
\* total size, streamUpload never reports success: it reports the
\* size-mismatch failure, unless the upload of a part failed first, and then
\* it reports that part's error; and when the mismatch is found on a short
\* buffer, that buffer and all later ones are neither hashed nor uploaded.
C3_MismatchOrFirstFailure ==
    /\ StreamLength # totalSize =>
           \A i \in 1..Len(cbs) :
               /\ cbs[i].arg2 # "value"
               /\ cbs[i].err # Null
               /\ IF FailedPuts = {}
                  THEN cbs[i].err = SizeMismatch
                  ELSE \A j \in FailedPuts : cbs[i].err = putResults[j].err
    /\ errored = SizeMismatch =>
           \A idx \in part..Len(blocks) :
               /\ idx \notin hashed
               /\ \A j \in 1..Len(puts) : puts[j].block # idx

\* C3 witness: a stream one byte longer than declared; its first part was
\* compared and uploaded, the one-byte buffer after it was rejected, and the
\* size-mismatch failure has been reported.
C3_Witness ==
    /\ StreamLength = Add(totalSize, FromInt(1))
    /\ totalSize = minimumPartSize
    /\ Len(blocks) = 2
    /\ hashed = {1}
    /\ Len(puts) = 1
    /\ errored = SizeMismatch
    /\ Len(cbs) = 1 /\ cbs[1].err = SizeMismatch

\* C4: once the upload of part k has failed, no later part is hashed or
\* handed to doPutObject, what streamUpload reports is a failure, and the
\* error it reports is the error of part k.
C4_FirstFailureWins ==
    \A j \in FailedPuts :
        LET k == putResults[j].part
        IN  /\ \A idx \in hashed : idx <= k
            /\ \A n \in 1..Len(puts) : puts[n].part <= k /\ puts[n].block <= k
            /\ \A n \in 1..Len(requests) : requests[n].part <= k
            /\ part = k + 1
            /\ \A i \in 1..Len(cbs) :
                   cbs[i].err = putResults[j].err /\ cbs[i].arg2 # "value"
            /\ pc = "flushed" => Len(cbs) = 1

\* C4 witness: the upload of part 1 failed while a resume record was left
\* for part 2; two more buffers arrived, and the failure of part 1 has been
\* reported.
C4_Witness ==
    /\ Len(putResults) = 1
    /\ putResults[1].part = 1 /\ putResults[1].err = "InternalError"
    /\ Len(blocks) = 3
    /\ Len(partsArray) = 1
    /\ pc = "flushed"
    /\ Len(cbs) = 1 /\ cbs[1].err = "InternalError"

\* C8 (as claimed): for an empty stream of declared size 0, streamUpload
\* reports a failure or a manifest of one entry, the upload of one empty
\* part; never success with an empty manifest.
C8_EmptyStreamOnePartOrFailure ==
    totalSize = Zero /\ StreamLength = Zero =>
        \A i \in Successes :
            /\ Len(cbs[i].etags) = 1
            /\ Len(puts) = 1

\* The steps by which a run goes on: a buffer is taken, a part's request is
\* answered, the flush function runs.
GoesOn == Transform \/ ResponseOk \/ ResponseError \/ Flush

\* C9 (as claimed): a failure at a suspension point, an error of the input
\* stream or the failure of a part's request in the transport, reaches the
\* caller: the run does not come to rest before cb has been called with a
\* failure.
C9_FailurePropagates ==
    /\ rstate = "errored" =>
           \/ ENABLED GoesOn
           \/ \E i \in 1..Len(cbs) : cbs[i].err # Null
    /\ pc = "lost" =>
           \/ ENABLED GoesOn
           \/ \E i \in 1..Len(cbs) : cbs[i].err # Null

\* C10: cb is called with an error or with a manifest, never both and never
\* neither; with a manifest only when no error is latched and the bytes
\* seen equal the declared total size.
C10_ErrorOrManifest ==
    \A i \in 1..Len(cbs) :
        /\ cbs[i].err # Null <=> cbs[i].arg2 # "value"
        /\ cbs[i].arg2 = "value" =>
               /\ errored = Null
               /\ totalSeen = totalSize
               /\ cbs[i].etags = etags

\* C10 witness: both outcomes; here the manifest, after three parts.
C10_Witness ==
    /\ Len(cbs) = 1
    /\ cbs[1].err = Null /\ cbs[1].arg2 = "value"
    /\ Len(cbs[1].etags) = 3
    /\ totalSeen = totalSize

\* ------------------------------------------------------------------------
\* Claims on completeMultipartUpload (SpecComplete)
\* ------------------------------------------------------------------------

\* C7 (as claimed): the completion document lists its Part entries in
\* ascending part-number order for every manifest given, also one whose
\* entries were appended in another order.
C7_DocumentAscending ==
    fpc # "start" =>
        \A i, j \in 1..Len(PartsOf(fPayload)) :
            i < j => PartsOf(fPayload)[i].PartNumber <= PartsOf(fPayload)[j].PartNumber

\* ------------------------------------------------------------------------
\* Further claims on streamUpload (Spec)
\* ------------------------------------------------------------------------

\* The stream delivers exactly the declared number of bytes.
ExactStream == StreamLength = totalSize

\* The length part n has when a stream of exactly the declared size is cut
\* at every multiple of the part size: the part size while n whole parts
\* fit, else what is left after n - 1 whole parts.
CutLength(n) ==
    IF Leq(MulSmall(partSize, n), totalSize)
    THEN partSize
    ELSE Sub(totalSize, MulSmall(partSize, n - 1))

\* C11: a stream of exactly the declared S bytes is split into consecutive
\* parts, each but the last of exactly the part size, the last holding the
\* remainder; no buffer is rejected for its size, each upload is of its
\* part's length, and unless an upload fails the call succeeds with the
\* lengths summing to S.  S = 11 MiB gives 3 parts of 5, 5 and 1 MiB and a
\* manifest of part numbers 1, 2, 3.
C11_ExactSplit ==
    ExactStream =>
        /\ \A n \in 1..Len(blocks) :
               /\ blocks[n].len # Zero
               /\ Leq(blocks[n].len, partSize)
               /\ blocks[n].len = CutLength(n)
        /\ errored # SizeMismatch
        /\ \A j \in 1..Len(requests) :
               requests[j].size = blocks[requests[j].part].len
        /\ pc = "flushed" /\ FailedPuts = {} =>
               /\ Successes = {1}
               /\ totalSeen = totalSize
               /\ SumLen(blocks) = totalSize
        /\ totalSize = FromInt(11 * 1024 * 1024) /\ Successes # {} =>
               /\ Len(blocks) = 3
               /\ blocks[1].len = FromInt(5 * 1024 * 1024)
               /\ blocks[2].len = FromInt(5 * 1024 * 1024)
               /\ blocks[3].len = FromInt(1024 * 1024)
               /\ [n \in 1..3 |-> cbs[1].etags[n].part] = <<1, 2, 3>>

\* C11 witness: 11 MiB declared and delivered, three parts uploaded, success.
C11_Witness ==
    /\ ExactStream
    /\ totalSize = FromInt(11 * 1024 * 1024)
    /\ Len(requests) = 3
    /\ requests[3].size = FromInt(1024 * 1024)
    /\ Successes = {1}
    /\ Len(cbs[1].etags) = 3

\* ------------------------------------------------------------------------
\* Claims on doPutObject (SpecPut)
\* ------------------------------------------------------------------------

\* C12: when the input stream of doPutObject holds a number of bytes other
\* than the declared size, no request is ever signed or given to the
\* transport, and once the stream has been read to its end cb has been
\* called once, with the size-mismatch error.
C12_MismatchNoRequest ==
    pData.len # pSize =>
        /\ pSigned = <<>>
        /\ pSent = <<>>
        /\ prstate = "ended" =>
               pcbs = <<[err |-> PutSizeMismatch, etag |-> Undefined]>>

\* C12 witness: one byte read where 5 MiB were declared, reported.
C12_Witness ==
    /\ pSize = minimumPartSize
    /\ pData.len = FromInt(1)
    /\ prstate = "ended"
    /\ Len(pcbs) = 1
    /\ pcbs[1].err = PutSizeMismatch

\* ------------------------------------------------------------------------
\* Claims on initiateNewMultipartUpload (SpecInitiate)
\* ------------------------------------------------------------------------

\* The upload ids a response document holds.
UploadIdsIn(response) ==
    {response.children[i].content : i \in
        {j \in 1..Len(response.children) :
            /\ response.children[j].name = "UploadId"
            /\ response.children[j].content # ""}}

\* C13: once the response has been dealt with, cb has been called exactly
\* once: with an upload id of the response and no error when the status is
\* 200 and the body holds an upload id, with the error 'unable to get
\* upload id' and no upload id when the status is 200 and the body holds
\* none, and with parseError's error and no upload id for another status.
C13_ErrorOrUploadId ==
    iResponse # NoResponse /\ ~ENABLED NextInitiate =>
        /\ Len(icbs) = 1
        /\ (icbs[1].err = Null) # (~icbs[1].given)
        /\ IF iResponse.statusCode # 200
           THEN icbs[1].err = parseError(iResponse)
           ELSE IF UploadIdsIn(iResponse) # {}
           THEN icbs[1].err = Null /\ icbs[1].uploadId \in UploadIdsIn(iResponse)
           ELSE /\ icbs[1].err = UnableToGetUploadId
                /\ icbs[1].err \notin
                       {parseError(r) : r \in InitiateErrorResponses}

\* C14: a resume manifest with more records than the stream has parts does
\* not make the upload fail: a run of a stream of the declared size
\* without a failed upload ends in success, every success carries exactly
\* one entry per part, numbered 1 to N, and the records beyond the N-th
\* are left unread and give no entry.
C14_LeftoverRecordsIgnored ==
    Len(resume0) > Len(blocks) =>
        /\ pc = "flushed" /\ ExactStream /\ FailedPuts = {} => Successes = {1}
        /\ \A i \in Successes :
               /\ Len(cbs[i].etags) = Len(blocks)
               /\ \A n \in 1..Len(blocks) : cbs[i].etags[n].part = n
               /\ partsArray =
                      SubSeq(resume0, Len(blocks) + 1, Len(resume0))

\* C14 witness: success with one entry for a one-part stream and a resume
\* manifest of two records.
C14_Witness ==
    /\ Len(resume0) = 2
    /\ Len(blocks) = 1
    /\ Successes = {1}
    /\ Len(cbs[1].etags) = 1
    /\ Len(partsArray) = 1

\* Part uploads handed to doPutObject whose callback has not run.
Outstanding == Len(puts) - Len(putResults)

\* C15: at most one part upload is in flight, and while it is, the buffer
\* being uploaded is the last one the transform function was given: no
\* later buffer has been hashed, compared or uploaded.  Every buffer
\* before the last one has been resolved, by a skip or by an upload's
\* result.
C15_OnePartAtATime ==
    /\ Outstanding \in {0, 1}
    /\ (inflight # NoRequest) = (pc \in {"put", "lost"})
    /\ (Outstanding = 1) = (inflight # NoRequest)
    /\ Outstanding = 1 =>
           /\ puts[Len(puts)].block = Len(blocks)
           /\ \A k \in hashed : k <= Len(blocks)
           /\ Len(requests) = Len(putResults) + 1
    /\ \A j \in 1..Len(puts) :
           puts[j].block < Len(blocks) => j <= Len(putResults)
    /\ \A j \in 1..Len(putResults) : putResults[j].part = puts[j].part

\* C15 witness: the second part's upload is in flight after the first
\* part's upload has been answered.
C15_Witness ==
    /\ pc = "put"
    /\ Len(blocks) = 2
    /\ Len(puts) = 2
    /\ Len(putResults) = 1
    /\ inflight.part = 2

\* The calls of doPutObject for part n.
PutsOf(n) == {j \in 1..Len(puts) : puts[j].part = n}

\* Part n was numbered (its buffer passed the size check) and its resume
\* record holds the buffer's md5: the part is skipped.
SkippedOnResume(n) ==
    /\ n < part
    /\ n <= Len(resume0)
    /\ resume0[n].etag = Md5Hex(blocks[n])

\* C16: no part number is passed to doPutObject twice; a part skipped on
\* resume is never passed to it; a numbered part that was not skipped is
\* passed to it exactly once, with its own buffer; buffers rejected for
\* their size or arriving after the latch was set are never passed to it.
C16_EachPartUploadedOnce ==
    /\ \A n \in 1..(Len(blocks) + 1) : Cardinality(PutsOf(n)) <= 1
    /\ \A j \in 1..Len(puts) :
           /\ puts[j].part \in 1..(part - 1)
           /\ puts[j].block = puts[j].part
    /\ \A j \in 1..Len(requests) : requests[j].part = puts[j].part
    /\ \A n \in 1..(part - 1) :
           IF SkippedOnResume(n)
           THEN PutsOf(n) = {}
           ELSE Cardinality(PutsOf(n)) = 1

\* C16 witness: part 1 skipped on resume, part 2 uploaded, a third buffer
\* rejected for its size.
C16_Witness ==
    /\ SkippedOnResume(1)
    /\ part = 3
    /\ Len(blocks) = 3
    /\ errored = SizeMismatch
    /\ Len(puts) = 1
    /\ puts[1].part = 2
    /\ Len(putResults) = 1

\* Resume records taken from the head of partsArray so far: one per
\* numbered part, while there were records.
RecordsUsed == IF part - 1 < Len(resume0) THEN part - 1 ELSE Len(resume0)

\* C17: the resume records are consumed in order, one per numbered part
\* whether or not it matched: what is left of partsArray is the supplied
\* manifest without its first RecordsUsed records.  The buffers hashed are
\* those of the parts that had a record, and part n is skipped exactly when
\* the n-th supplied record holds its md5, whatever part number that
\* record carries and whatever the other records hold; a part without a
\* record is uploaded.
C17_RecordsInOrder ==
    /\ partsArray = SubSeq(resume0, RecordsUsed + 1, Len(resume0))
    /\ hashed = 1..RecordsUsed
    /\ \A n \in 1..RecordsUsed :
           (PutsOf(n) = {}) = (resume0[n].etag = Md5Hex(blocks[n]))
    /\ \A n \in (RecordsUsed + 1)..(part - 1) : PutsOf(n) # {}

\* C17 witness: two records numbered 2 and 3; the second holds the md5 of
\* the first buffer, the first does not, and the first part was uploaded;
\* both records are used up after two parts.
C17_Witness ==
    /\ Len(resume0) = 2
    /\ resume0[1].part = 2
    /\ part = 3
    /\ partsArray = <<>>
    /\ resume0[2].etag = Md5Hex(blocks[1])
    /\ resume0[1].etag # Md5Hex(blocks[1])
    /\ PutsOf(1) # {}

\* C18: once the error latch is set, no step changes it, the manifest, the
\* bytes seen or the part counter: later buffers are dropped unprocessed.
C18_LatchFreezes ==
    [][errored # Null =>
           /\ errored' = errored
           /\ etags' = etags
           /\ totalSeen' = totalSeen
           /\ part' = part
           /\ partsArray' = partsArray
           /\ puts' = puts]_vars

\* C18 witness: the first part's upload failed, a second buffer arrived
\* and was dropped, and the flush function reported the first error.
C18_Witness ==
    /\ errored = "AccessDenied"
    /\ part = 2
    /\ Len(blocks) = 2
    /\ totalSeen = blocks[1].len
    /\ Len(puts) = 1
    /\ Len(cbs) = 1
    /\ cbs[1].err = errored

\* How far the run is from its end, beside the bytes not yet handed on.
Rank ==
    (CASE pc = "put" -> 2 [] pc = "idle" -> 1 [] OTHER -> 0)
        + (IF rstate = "flowing" THEN 1 ELSE 0)

\* Where a run whose input stream does not fail and whose uploads are all
\* answered can stand.
StreamEndsUploadsResolve == rstate # "errored" /\ pc # "lost"

\* When cb has been called: once, by the flush function, with the stream
\* used up and no upload unanswered.
CalledBackAtTheEnd ==
    /\ Len(cbs) <= 1
    /\ Len(cbs) = 1 =>
           /\ pc = "flushed"
           /\ rstate = "ended"
           /\ rest = Zero
           /\ Outstanding = 0
           /\ Len(putResults) = Len(puts)
    /\ StreamEndsUploadsResolve /\ ~ENABLED GoesOn => Len(cbs) = 1

\* C19: when the input stream ends and every issued upload is answered,
\* streamUpload calls cb, exactly once, and only after the last processed
\* part has resolved.  Every step brings the run nearer its end (the bytes
\* left shrink, or else the rank does), so a run comes to rest after
\* finitely many steps; a run at rest whose stream did not fail and whose
\* uploads were all answered has called cb; cb is never called twice, and
\* the call is made with no upload outstanding, after which nothing runs.
C19_CallbackOnceAtTheEnd ==
    /\ []CalledBackAtTheEnd
    /\ [][/\ \/ Less(rest', rest)
             \/ rest' = rest /\ Rank' < Rank
          /\ Len(cbs') > Len(cbs) => Outstanding = 0 /\ rest = Zero
          /\ Len(cbs) = 0]_vars

\* C19 witness: two uploads answered, one of them with a failure, three
\* buffers handed over, then the one call of cb.
C19_Witness ==
    /\ Len(puts) = 2
    /\ Len(putResults) = 2
    /\ FailedPuts # {}
    /\ Len(blocks) = 3
    /\ rstate = "ended"
    /\ Len(cbs) = 1

=============================================================================
